---------------------------- MODULE Spec2Model ----------------------------
(***************************************************************************)
(* Model of the module registry (StaticModuleResolver) and of the function *)
(* metadata export (FnMetadata / ModuleMetadata / gen_fn_metadata_to_json) *)
(* of rhai.                                                                *)
(*                                                                         *)
(* Strings the code only stores and copies (paths, function names, doc     *)
(* lines) are TLA+ strings.  Strings the code takes apart (raw parameter   *)
(* names, split on ':' and trimmed) and strings the code orders (the keys  *)
(* of a BTreeMap) are sequences of characters, each character a string: an *)
(* ASCII character is itself, any other is named by its code point, as     *)
(* "U+00A0".  The field names serde writes for a struct are TLA+ strings.  *)
(***************************************************************************)
EXTENDS Naturals, Sequences, FiniteSets, TLC

VARIABLES
    registry,          \* StaticModuleResolver.0 : HashMap<String, Module>
    before,            \* the map as it was when the last call was made
    call,              \* the last call on the registry and its arguments
    ret,               \* what the last call returned
    input,             \* the descriptor handed to a From conversion
    meta,              \* the FnMetadata the conversion built
    engine,            \* Engine: packages, global_sub_modules, global_namespace
    request,           \* arguments of gen_fn_metadata_to_json: ast, include_packages
    global,            \* the root ModuleMetadata gen_fn_metadata_to_json built
    json               \* the document gen_fn_metadata_to_json returned

vars == <<registry, before, call, ret, input, meta, engine, request, global, json>>

regVars == <<registry, before, call, ret>>
normVars == <<input, meta>>
exportVars == <<engine, request, global, json>>

---------------------------------------------------------------------------
(* Option<T> and Result<T, E> *)

None == [some |-> FALSE]
Some(v) == [some |-> TRUE, val |-> v]

Ok(v) == [ok |-> TRUE, val |-> v]
Err(e) == [ok |-> FALSE, err |-> e]

Unit == "()"

---------------------------------------------------------------------------
(* Raw strings as character sequences *)

S_empty == << >>
S_y == <<"y">>
S_xInt == <<"x", ":", "I", "n", "t">>
S_padded == <<" ", "a", " ", ":", " ", "B", " ">>
S_blank == <<" ">>
S_colonT == <<":", "T">>
S_twoColons == <<"a", ":", "b", ":", "c">>
S_Bool == <<"B", "o", "o", "l">>

S_underscore == <<"_">>
S_unit == <<"(", ")">>
S_Dynamic == <<"D", "y", "n", "a", "m", "i", "c">>

S_tabbed == <<"\t", "x", " ", ":", " ", "T", "\n">>
S_nbsp == <<"U+00A0", "z", "U+3000">>

RawStrings ==
    {S_empty, S_y, S_xInt, S_padded, S_blank, S_colonT, S_twoColons, S_tabbed, S_nbsp}

\* char::is_whitespace : the characters with the Unicode White_Space property
WhiteSpace ==
    { "\t", "\n", "U+000B", "\f", "\r", " ", "U+0085", "U+00A0", "U+1680",
      "U+2000", "U+2001", "U+2002", "U+2003", "U+2004", "U+2005", "U+2006",
      "U+2007", "U+2008", "U+2009", "U+200A", "U+2028", "U+2029", "U+202F",
      "U+205F", "U+3000" }

---------------------------------------------------------------------------
(* Bounds of the explored inputs *)

MaxNames == 2
MaxArity == 2
MaxComments == 2
MaxFns == 2
MaxPackages == 2

Min(a, b) == IF a <= b THEN a ELSE b

SeqsUpTo(S, n) == UNION {[1..k -> S] : k \in 0..n}

---------------------------------------------------------------------------
(* Iterator and string helpers used by the conversions *)

\* mutant: the take is left out
Take_all(s, n) == s

\* Iterator::take(n)
Take(s, n) == SubSeq(s, 1, Min(n, Len(s)))

\* Iterator::next() on the i-th call, over the items of s
NextItem(s, i) == IF i <= Len(s) THEN Some(s[i]) ELSE None

\* slice::last()
Last(s) == IF Len(s) = 0 THEN None ELSE Some(s[Len(s)])

\* Option::map
OptMap(F(_), o) == IF o.some THEN Some(F(o.val)) ELSE None

\* Option::unwrap_or
UnwrapOr(o, d) == IF o.some THEN o.val ELSE d

\* Option::or_else(|| Some(d))
OrElseSome(o, d) == IF o.some THEN o ELSE Some(d)

\* Index of the first ':' in s, or 0
FirstColon(s) ==
    IF \E i \in 1..Len(s) : s[i] = ":"
    THEN CHOOSE i \in 1..Len(s) : s[i] = ":" /\ \A j \in 1..(i - 1) : s[j] # ":"
    ELSE 0

\* str::splitn(2, ':') : the items the iterator yields
SplitN2(s) ==
    LET i == FirstColon(s)
    IN  IF i = 0 THEN <<s>>
        ELSE <<SubSeq(s, 1, i - 1), SubSeq(s, i + 1, Len(s))>>

RECURSIVE TrimStart(_)
TrimStart(s) ==
    IF Len(s) > 0 /\ s[1] \in WhiteSpace THEN TrimStart(Tail(s)) ELSE s

RECURSIVE TrimEnd(_)
TrimEnd(s) ==
    IF Len(s) > 0 /\ s[Len(s)] \in WhiteSpace
    THEN TrimEnd(SubSeq(s, 1, Len(s) - 1))
    ELSE s

\* str::trim
Trim(s) == TrimEnd(TrimStart(s))

\* Iterator::map(f).collect::<Vec<_>>()
MapSeq(F(_), s) == [i \in 1..Len(s) |-> F(s[i])]

---------------------------------------------------------------------------
(* serde_impl/metadata.rs : conversions into FnMetadata *)

FnNamespace_from(value) ==
    CASE value = "crate::FnNamespace::Global" -> "Global"
      [] value = "crate::FnNamespace::Internal" -> "Internal"

FnAccess_from(value) ==
    CASE value = "crate::FnAccess::Public" -> "Public"
      [] value = "crate::FnAccess::Private" -> "Private"

\* the closure of lines 90-98: one raw parameter string to a FnParam
ParamOfRaw(s) ==
    LET seg == SplitN2(s)
        name == UnwrapOr(OptMap(Trim, NextItem(seg, 1)), S_underscore)
        typ == OptMap(Trim, NextItem(seg, 2))
    IN  [name |-> name, typ |-> typ]

\* lines 86-102: the params field
FuncInfo_params(info) ==
    IF info.param_names.some
    THEN MapSeq(ParamOfRaw, Take(info.param_names.val, info.params))
    ELSE << >>

\* mutant: only an entry beyond the declared arity is a return type
FuncInfo_return_type_extra(info) ==
    IF info.param_names.some
    THEN IF Len(info.param_names.val) > info.params
         THEN Last(info.param_names.val)
         ELSE Some(S_unit)
    ELSE None

\* lines 103-110: the return_type field
FuncInfo_return_type(info) ==
    IF info.param_names.some
    THEN OrElseSome(Last(info.param_names.val), S_unit)
    ELSE None

\* mutant: an empty comment list is dropped, as the compiled-script path does
FuncInfo_doc_comments_nonEmpty(info) ==
    IF info.func.script /\ Len(info.func.comments) > 0
    THEN Some(info.func.comments)
    ELSE None

\* lines 111-115: the doc_comments field
FuncInfo_doc_comments(info) ==
    IF info.func.script
    THEN Some(info.func.comments)
    ELSE None

\* impl From<&crate::module::FuncInfo> for FnMetadata
FnMetadata_from_FuncInfo(info) ==
    [ namespace |-> FnNamespace_from(info.namespace),
      access |-> FnAccess_from(info.access),
      name |-> info.name,
      typ |-> IF info.func.script THEN "Script" ELSE "Native",
      num_params |-> info.params,
      params |-> FuncInfo_params(info),
      return_type |-> FuncInfo_return_type(info),
      doc_comments |-> FuncInfo_doc_comments(info) ]

ScriptParam(s) == [name |-> s, typ |-> Some(S_Dynamic)]

\* impl From<crate::ScriptFnMetadata<'_>> for FnMetadata
FnMetadata_from_ScriptFnMetadata(info) ==
    [ namespace |-> "Global",
      access |-> FnAccess_from(info.access),
      name |-> info.name,
      typ |-> "Script",
      num_params |-> Len(info.params),
      params |-> MapSeq(ScriptParam, info.params),
      return_type |-> Some(S_Dynamic),
      doc_comments |-> IF Len(info.comments) = 0
                       THEN None
                       ELSE Some(info.comments) ]


---------------------------------------------------------------------------
(* serde_impl/metadata.rs : ModuleMetadata and the export *)

EmptyMap == << >>

\* Default::default() of ModuleMetadata
ModuleMetadata_default == [modules |-> EmptyMap, functions |-> << >>]

\* BTreeMap::insert
BTreeInsert(map, k, v) ==
    [q \in (DOMAIN map) \cup {k} |-> IF q = k THEN v ELSE map[q]]

\* impl From<&crate::Module> for ModuleMetadata
RECURSIVE ModuleMetadata_from_Module(_)
ModuleMetadata_from_Module(module) ==
    [ modules |-> [name \in DOMAIN module.subs |->
                      ModuleMetadata_from_Module(module.subs[name])],
      functions |-> MapSeq(FnMetadata_from_FuncInfo, module.fns) ]

\* lines 191-193: for_each over global_sub_modules, inserting each converted module
RECURSIVE InsertSubModules(_, _)
InsertSubModules(map, subs) ==
    IF DOMAIN subs = {} THEN map
    ELSE LET name == CHOOSE n \in DOMAIN subs : TRUE
             rest == [n \in (DOMAIN subs) \ {name} |-> subs[n]]
         IN  InsertSubModules(
                 BTreeInsert(map, name, ModuleMetadata_from_Module(subs[name])),
                 rest)

\* Iterator::flat_map over a sequence of sequences
RECURSIVE Flatten(_)
Flatten(ss) == IF Len(ss) = 0 THEN << >> ELSE Head(ss) \o Flatten(Tail(ss))

PackageFns(m) == MapSeq(FnMetadata_from_FuncInfo, m.fns)

\* the root node built by lines 182-204 of gen_fn_metadata_to_json
BuildGlobal(eng, ast, include_packages) ==
    LET g0 == ModuleMetadata_default
        g1 == IF include_packages
              THEN [g0 EXCEPT !.functions =
                       @ \o Flatten(MapSeq(PackageFns, eng.packages))]
              ELSE g0
        g2 == [g1 EXCEPT !.modules =
                  InsertSubModules(@, eng.global_sub_modules)]
        g3 == [g2 EXCEPT !.functions =
                  @ \o MapSeq(FnMetadata_from_FuncInfo, eng.global_namespace.fns)]
        g4 == IF ast.some
              THEN [g3 EXCEPT !.functions =
                       @ \o MapSeq(FnMetadata_from_ScriptFnMetadata, ast.val)]
              ELSE g3
    IN  g4

---------------------------------------------------------------------------
(* serde: the JSON value each derive(Serialize) produces.  An object is the *)
(* sequence of its <<key, value>> members in the order they are written.   *)

JStr(s) == [j |-> "string", v |-> s]
JNum(n) == [j |-> "number", v |-> n]
JArr(a) == [j |-> "array", v |-> a]
JObj(members) == [j |-> "object", v |-> members]

\* mutant: the field is written whatever its skip_serializing_if says
Field_always(key, value, skip) == << <<key, value>> >>

\* one struct field, left out when its skip_serializing_if predicate holds
Field(key, value, skip) == IF skip THEN << >> ELSE << <<key, value>> >>

\* #[serde(rename_all = "camelCase")] on the unit variants
VariantName(v) ==
    CASE v = "Global" -> "global"
      [] v = "Internal" -> "internal"
      [] v = "Public" -> "public"
      [] v = "Private" -> "private"
      [] v = "Script" -> "script"
      [] v = "Native" -> "native"

Ser_FnParam(p) ==
    JObj( Field("name", JStr(p.name), FALSE)
       \o Field("type", IF p.typ.some THEN JStr(p.typ.val) ELSE JStr(<< >>),
                ~ p.typ.some) )

Ser_DocLine(s) == JStr(s)

Ser_FnMetadata(f) ==
    JObj( Field("namespace", JStr(VariantName(f.namespace)), FALSE)
       \o Field("access", JStr(VariantName(f.access)), FALSE)
       \o Field("name", JStr(f.name), FALSE)
       \o Field("type", JStr(VariantName(f.typ)), FALSE)
       \o Field("numParams", JNum(f.num_params), FALSE)
       \o Field("params", JArr(MapSeq(Ser_FnParam, f.params)), Len(f.params) = 0)
       \o Field("returnType",
                IF f.return_type.some THEN JStr(f.return_type.val) ELSE JStr(<< >>),
                ~ f.return_type.some)
       \o Field("docComments",
                IF f.doc_comments.some
                THEN JArr(MapSeq(Ser_DocLine, f.doc_comments.val))
                ELSE JArr(<< >>),
                ~ f.doc_comments.some) )

\* the printable ASCII characters in ascending byte order, from U+0020
Ascii ==
    <<
       " ", "!", "U+0022", "#", "$", "%", "&", "'", "(", ")", "*", "+",
       ",", "-", ".", "/", "0", "1", "2", "3", "4", "5", "6", "7",
       "8", "9", ":", ";", "<", "=", ">", "?", "@", "A", "B", "C",
       "D", "E", "F", "G", "H", "I", "J", "K", "L", "M", "N", "O",
       "P", "Q", "R", "S", "T", "U", "V", "W", "X", "Y", "Z", "[",
       "U+005C", "]", "^", "_", "U+0060", "a", "b", "c", "d", "e", "f", "g",
       "h", "i", "j", "k", "l", "m", "n", "o", "p", "q", "r", "s",
       "t", "u", "v", "w", "x", "y", "z", "{", "|", "}", "~"
    >>

\* the byte of an ASCII character, counted from the space
ByteOf(c) == CHOOSE i \in 1..Len(Ascii) : Ascii[i] = c

\* <String as Ord>::cmp being Less : byte-wise lexicographic order
StrLess(a, b) ==
    LET n == Min(Len(a), Len(b))
        differ == {i \in 1..n : a[i] # b[i]}
    IN  IF differ = {} THEN Len(a) < Len(b)
        ELSE LET i == CHOOSE d \in differ : \A e \in differ : d <= e
             IN  ByteOf(a[i]) < ByteOf(b[i])

\* the keys of a set in ascending order
RECURSIVE Ascending(_)
Ascending(keys) ==
    IF keys = {} THEN << >>
    ELSE LET least == CHOOSE k \in keys : \A o \in keys \ {k} : StrLess(k, o)
         IN  <<least>> \o Ascending(keys \ {least})

\* BTreeMap iteration: the keys in ascending order
BTreeKeys(map) == Ascending(DOMAIN map)

RECURSIVE Ser_ModuleMetadata(_)
Ser_ModuleMetadata(m) ==
    LET keys == BTreeKeys(m.modules)
        member(i) == <<keys[i], Ser_ModuleMetadata(m.modules[keys[i]])>>
    IN  JObj( Field("modules", JObj([i \in 1..Len(keys) |-> member(i)]),
                    DOMAIN m.modules = {})
           \o Field("functions", JArr(MapSeq(Ser_FnMetadata, m.functions)),
                    Len(m.functions) = 0) )

\* Engine::gen_fn_metadata_to_json
gen_fn_metadata_to_json(eng, ast, include_packages) ==
    Ok(Ser_ModuleMetadata(BuildGlobal(eng, ast, include_packages)))


---------------------------------------------------------------------------
(* module/resolvers/stat.rs : StaticModuleResolver over HashMap<String, Module> *)

\* mutant: an occupied entry is kept (entry(k).or_insert(v))
MapInsert_keep(map, k, v) ==
    [q \in (DOMAIN map) \cup {k} |-> IF q \in DOMAIN map THEN map[q] ELSE v]

\* HashMap::insert
MapInsert(map, k, v) ==
    [q \in (DOMAIN map) \cup {k} |-> IF q = k THEN v ELSE map[q]]

\* mutant: the entry stays in the map
MapRemove_stays(map, k) == map

\* HashMap::remove : the map that is left
MapRemove(map, k) == [q \in (DOMAIN map) \ {k} |-> map[q]]

\* HashMap::get
MapGet(map, k) == IF k \in DOMAIN map THEN Some(map[k]) ELSE None

\* HashMap::extend(other.into_iter()) : insert every entry of other
RECURSIVE MapExtend(_, _)
MapExtend(map, other) ==
    IF DOMAIN other = {} THEN map
    ELSE LET k == CHOOSE q \in DOMAIN other : TRUE
             rest == [q \in (DOMAIN other) \ {k} |-> other[q]]
         IN  MapExtend(MapInsert(map, k, other[k]), rest)

\* Module::clone
CloneModule(m) == [fns |-> m.fns, subs |-> m.subs]

\* StaticModuleResolver::contains_path
ContainsPath(map, path) == path \in DOMAIN map

\* StaticModuleResolver::is_empty
IsEmpty(map) == DOMAIN map = {}

\* StaticModuleResolver::len
MapLen(map) == Cardinality(DOMAIN map)

\* mutant: self wins on conflict
Merge_selfWins(map, other) ==
    [q \in (DOMAIN map) \cup (DOMAIN other) |->
        IF q \in DOMAIN map THEN map[q] ELSE other[q]]

\* StaticModuleResolver::merge : the map self holds afterwards
Merge(map, other) == IF ~ IsEmpty(other) THEN MapExtend(map, other) ELSE map

\* the (path, module) pairs of the map
Entries(map) == {<<k, map[k]>> : k \in DOMAIN map}

\* the orders in which an iterator can yield the items of a set
Orderings(items) ==
    {s \in [1..Cardinality(items) -> items] :
        \A i, j \in 1..Cardinality(items) : i # j => s[i] # s[j]}

\* the orders in which HashMap::values can yield the modules
ValueOrderings(map) ==
    {[i \in 1..Len(ks) |-> map[ks[i]]] : ks \in Orderings(DOMAIN map)}

ErrorModuleNotFound(path, pos) ==
    [kind |-> "ErrorModuleNotFound", path |-> path, pos |-> pos]

\* mutant: the error drops the caller's position (Position::NONE)
Resolve_nonePos(map, path, pos) ==
    IF path \in DOMAIN map
    THEN Ok(map[path])
    ELSE Err(ErrorModuleNotFound(path, [line |-> 0, pos |-> 0]))

\* <StaticModuleResolver as ModuleResolver>::resolve
Resolve(map, path, pos) ==
    LET found == OptMap(CloneModule, MapGet(map, path))
    IN  IF found.some THEN Ok(found.val) ELSE Err(ErrorModuleNotFound(path, pos))


---------------------------------------------------------------------------
(* The explored inputs *)

Namespaces == {"crate::FnNamespace::Global", "crate::FnNamespace::Internal"}
Accesses == {"crate::FnAccess::Public", "crate::FnAccess::Private"}
DocLines == {"/// one", "/// two"}

NativeFn == [script |-> FALSE]
ScriptFn(comments) == [script |-> TRUE, comments |-> comments]

Callables == {NativeFn} \cup {ScriptFn(c) : c \in SeqsUpTo(DocLines, MaxComments)}

ParamNameLists == {None} \cup {Some(l) : l \in SeqsUpTo(RawStrings, MaxNames)}

\* every crate::module::FuncInfo within the bounds
FuncInfos ==
    [ namespace : Namespaces, access : Accesses, name : {"f"},
      params : 0..MaxArity, param_names : ParamNameLists, func : Callables ]

ParamIdents == {<<"x">>, <<"y">>}

\* every crate::ScriptFnMetadata within the bounds
ScriptFnMetadatas ==
    [ access : Accesses, name : {"g"},
      params : SeqsUpTo(ParamIdents, MaxArity),
      comments : SeqsUpTo(DocLines, MaxComments) ]

NormInputs ==
    {[kind |-> "FuncInfo", info |-> i] : i \in FuncInfos}
    \cup {[kind |-> "ScriptFnMetadata", info |-> i] : i \in ScriptFnMetadatas}

\* native f(a: Int) -> Bool
F_f ==
    [ namespace |-> "crate::FnNamespace::Global", access |-> "crate::FnAccess::Public",
      name |-> "f", params |-> 1,
      param_names |-> Some(<< <<"a", ":", " ", "I", "n", "t">>, S_Bool >>),
      func |-> NativeFn ]

\* script g(x) with two documentation lines
F_g ==
    [ namespace |-> "crate::FnNamespace::Internal", access |-> "crate::FnAccess::Public",
      name |-> "g", params |-> 1,
      param_names |-> Some(<< <<"x">> >>),
      func |-> ScriptFn(<<"/// one", "/// two">>) ]

\* native h() registered without parameter names
F_h ==
    [ namespace |-> "crate::FnNamespace::Internal", access |-> "crate::FnAccess::Private",
      name |-> "h", params |-> 0,
      param_names |-> None,
      func |-> NativeFn ]

FnLib == {F_f, F_g, F_h}

\* functions of the host packages
P_print ==
    [ namespace |-> "crate::FnNamespace::Global", access |-> "crate::FnAccess::Public",
      name |-> "print", params |-> 1,
      param_names |-> Some(<< <<"x">>, S_unit >>),
      func |-> NativeFn ]

P_abs ==
    [ namespace |-> "crate::FnNamespace::Global", access |-> "crate::FnAccess::Public",
      name |-> "abs", params |-> 1,
      param_names |-> None,
      func |-> NativeFn ]

P_sqrt ==
    [ namespace |-> "crate::FnNamespace::Global", access |-> "crate::FnAccess::Public",
      name |-> "sqrt", params |-> 1,
      param_names |-> Some(<< >>),
      func |-> NativeFn ]

PackageFnNames == {"print", "abs", "sqrt"}

Module(fns, subs) == [fns |-> fns, subs |-> subs]

M_empty == Module(<< >>, EmptyMap)
M_math == Module(<<F_f>>, EmptyMap)
M_str == Module(<<F_g, F_h>>, EmptyMap)
M_util == Module(<<F_g>>, EmptyMap)
N_inner == <<"i", "n", "n", "e", "r">>
N_util == <<"u", "t", "i", "l">>
N_zeta == <<"z", "e", "t", "a">>
N_abc == <<"a", "b", "c">>
N_ab == <<"a", "b">>
N_Zed == <<"Z", "e", "d">>

M_nested == Module(<< >>, N_inner :> M_util)
M_deep == Module(<<F_h>>, (N_zeta :> M_nested) @@ (N_abc :> M_empty))
M_wide == Module(<< >>, (N_abc :> M_util) @@ (N_ab :> M_empty) @@ (N_Zed :> M_util))
Pkg_core == Module(<<P_print>>, EmptyMap)
Pkg_math == Module(<<P_abs, P_sqrt>>, EmptyMap)

\* compiled-script functions
A_g == [ access |-> "crate::FnAccess::Public", name |-> "g",
         params |-> << <<"x">> >>, comments |-> <<"/// one">> ]
A_k == [ access |-> "crate::FnAccess::Private", name |-> "k",
         params |-> << >>, comments |-> << >> ]

Paths == {"math", "str", "geo"}
RegModules == {M_math, M_str, M_util}
Positions == {[line |-> 1, pos |-> 1], [line |-> 3, pos |-> 7]}

PartialMaps(K, V) == UNION {[D -> V] : D \in SUBSET K}

\* every StaticModuleResolver over Paths and RegModules
Registries == PartialMaps(Paths, RegModules)

ModNames == {N_util, N_inner}
PackagePool == {Pkg_core, Pkg_math}
SubModulePool == {M_util, M_deep, M_wide}
AstPool == {None, Some(<< >>), Some(<<A_g>>), Some(<<A_k, A_g>>)}

\* every Engine within the bounds; packages is the collection in the order
\* self.packages.iter() yields it
Engines ==
    [ packages : SeqsUpTo(PackagePool, MaxPackages),
      global_sub_modules : PartialMaps(ModNames, SubModulePool),
      global_namespace : {Module(fns, EmptyMap) : fns \in SeqsUpTo(FnLib, MaxFns)} ]

Requests == [ast : AstPool, include_packages : BOOLEAN]

IdleCall == [op |-> "idle"]
IdleInput == [kind |-> "idle"]
IdleEngine == [packages |-> << >>, global_sub_modules |-> EmptyMap,
               global_namespace |-> M_empty]
IdleRequest == [ast |-> None, include_packages |-> FALSE]

RegistryIdle ==
    registry = EmptyMap /\ before = EmptyMap /\ call = IdleCall /\ ret = Unit
NormalizeIdle == input = IdleInput /\ meta = None
ExportIdle ==
    /\ engine = IdleEngine
    /\ request = IdleRequest
    /\ global = None
    /\ json = None

---------------------------------------------------------------------------
(* The registry: one action per method of StaticModuleResolver *)

\* StaticModuleResolver::new
Init ==
    /\ registry = EmptyMap
    /\ before = EmptyMap
    /\ call = [op |-> "new"]
    /\ ret = Unit
    /\ NormalizeIdle
    /\ ExportIdle

\* into_iter takes the resolver by value: no method can be called after it
Alive == call.op # "into_iter"

insert ==
    \E path \in Paths, module \in RegModules :
        /\ Alive
        /\ registry' = MapInsert(registry, path, module)
        /\ before' = registry
        /\ call' = [op |-> "insert", path |-> path, module |-> module]
        /\ ret' = Unit
        /\ UNCHANGED <<normVars, exportVars>>

remove ==
    \E path \in Paths :
        /\ Alive
        /\ registry' = MapRemove(registry, path)
        /\ before' = registry
        /\ call' = [op |-> "remove", path |-> path]
        /\ ret' = MapGet(registry, path)
        /\ UNCHANGED <<normVars, exportVars>>

contains_path ==
    \E path \in Paths :
        /\ Alive
        /\ before' = registry
        /\ call' = [op |-> "contains_path", path |-> path]
        /\ ret' = ContainsPath(registry, path)
        /\ UNCHANGED <<registry, normVars, exportVars>>

clear ==
    /\ Alive
    /\ registry' = EmptyMap
    /\ before' = registry
    /\ call' = [op |-> "clear"]
    /\ ret' = Unit
    /\ UNCHANGED <<normVars, exportVars>>

is_empty ==
    /\ Alive
    /\ before' = registry
    /\ call' = [op |-> "is_empty"]
    /\ ret' = IsEmpty(registry)
    /\ UNCHANGED <<registry, normVars, exportVars>>

len ==
    /\ Alive
    /\ before' = registry
    /\ call' = [op |-> "len"]
    /\ ret' = MapLen(registry)
    /\ UNCHANGED <<registry, normVars, exportVars>>

merge ==
    \E other \in Registries :
        /\ Alive
        /\ registry' = Merge(registry, other)
        /\ before' = registry
        /\ call' = [op |-> "merge", other |-> other]
        /\ ret' = Unit
        /\ UNCHANGED <<normVars, exportVars>>

add_assign ==
    \E rhs \in Registries :
        /\ Alive
        /\ registry' = Merge(registry, rhs)
        /\ before' = registry
        /\ call' = [op |-> "add_assign", other |-> rhs]
        /\ ret' = Unit
        /\ UNCHANGED <<normVars, exportVars>>

resolve ==
    \E path \in Paths, pos \in Positions :
        /\ Alive
        /\ before' = registry
        /\ call' = [op |-> "resolve", path |-> path, pos |-> pos]
        /\ ret' = Resolve(registry, path, pos)
        /\ UNCHANGED <<registry, normVars, exportVars>>

\* the entries in the order the HashMap's iterator yields them, which the
\* code does not fix
iter ==
    /\ Alive
    /\ before' = registry
    /\ call' = [op |-> "iter"]
    /\ ret' \in Orderings(Entries(registry))
    /\ UNCHANGED <<registry, normVars, exportVars>>

\* every stored module is handed out as &mut Module: the caller may put any
\* module in its place, the paths stay
iter_mut ==
    \E written \in [DOMAIN registry -> RegModules] :
        /\ Alive
        /\ registry' = written
        /\ before' = registry
        /\ call' = [op |-> "iter_mut"]
        /\ ret' \in Orderings(Entries(registry))
        /\ UNCHANGED <<normVars, exportVars>>

into_iter ==
    /\ Alive
    /\ before' = registry
    /\ call' = [op |-> "into_iter"]
    /\ ret' \in Orderings(Entries(registry))
    /\ UNCHANGED <<registry, normVars, exportVars>>

paths ==
    /\ Alive
    /\ before' = registry
    /\ call' = [op |-> "paths"]
    /\ ret' \in Orderings(DOMAIN registry)
    /\ UNCHANGED <<registry, normVars, exportVars>>

values ==
    /\ Alive
    /\ before' = registry
    /\ call' = [op |-> "values"]
    /\ ret' \in ValueOrderings(registry)
    /\ UNCHANGED <<registry, normVars, exportVars>>

values_mut ==
    \E written \in [DOMAIN registry -> RegModules] :
        /\ Alive
        /\ registry' = written
        /\ before' = registry
        /\ call' = [op |-> "values_mut"]
        /\ ret' \in ValueOrderings(registry)
        /\ UNCHANGED <<normVars, exportVars>>

Next ==
    \/ insert
    \/ remove
    \/ contains_path
    \/ iter
    \/ iter_mut
    \/ into_iter
    \/ paths
    \/ values
    \/ clear
    \/ is_empty
    \/ len
    \/ values_mut
    \/ merge
    \/ add_assign
    \/ resolve

Spec == Init /\ [][Next]_vars

---------------------------------------------------------------------------
(* The conversions into FnMetadata, applied to every descriptor in bounds *)

InitNormalize ==
    /\ input \in NormInputs
    /\ meta = None
    /\ RegistryIdle
    /\ ExportIdle

from_FuncInfo ==
    /\ input.kind = "FuncInfo"
    /\ ~ meta.some
    /\ meta' = Some(FnMetadata_from_FuncInfo(input.info))
    /\ UNCHANGED <<input, regVars, exportVars>>

from_ScriptFnMetadata ==
    /\ input.kind = "ScriptFnMetadata"
    /\ ~ meta.some
    /\ meta' = Some(FnMetadata_from_ScriptFnMetadata(input.info))
    /\ UNCHANGED <<input, regVars, exportVars>>

NextNormalize ==
    \/ from_FuncInfo
    \/ from_ScriptFnMetadata

SpecNormalize == InitNormalize /\ [][NextNormalize]_vars

---------------------------------------------------------------------------
(* The export, applied to every engine and request in bounds *)

InitExport ==
    /\ engine \in Engines
    /\ request \in Requests
    /\ global = None
    /\ json = None
    /\ RegistryIdle
    /\ NormalizeIdle

export ==
    /\ ~ json.some
    /\ global' = Some(BuildGlobal(engine, request.ast, request.include_packages))
    /\ json' = Some(gen_fn_metadata_to_json(engine, request.ast,
                                            request.include_packages))
    /\ UNCHANGED <<engine, request, regVars, normVars>>

NextExport ==
    \/ export

SpecExport == InitExport /\ [][NextExport]_vars


---------------------------------------------------------------------------
(* Properties of the registry, checked under Spec *)

\* C1: right after insert(p, m), whatever the registry held before,
\* resolve(p) at any position succeeds and returns a module equal to m.
C1_InsertThenResolve ==
    call.op = "insert" =>
        \A pos \in Positions :
            LET r == Resolve(registry, call.path, pos)
            IN  r.ok /\ r.val = call.module

\* the insert replaced a different module that the path already held
C1_Witness ==
    /\ call.op = "insert"
    /\ call.path \in DOMAIN before
    /\ before[call.path] # call.module
    /\ Cardinality(DOMAIN before) > 1

\* C2: resolve of a path that is no key fails with ErrorModuleNotFound
\* carrying exactly the path and the position of the call; resolve returns no
\* other kind of error; the mapping is the same after the call.
C2_ResolveMissing ==
    call.op = "resolve" =>
        /\ registry = before
        /\ ~ ret.ok => ret.err.kind = "ErrorModuleNotFound"
        /\ call.path \notin DOMAIN before =>
              /\ ~ ret.ok
              /\ ret.err.path = call.path
              /\ ret.err.pos = call.pos

\* a failed resolve on a registry that holds other paths, at the second position
C2_Witness ==
    /\ call.op = "resolve"
    /\ call.path \notin DOMAIN before
    /\ DOMAIN before # {}
    /\ call.pos = [line |-> 3, pos |-> 7]
    /\ ~ ret.ok

\* C3: after a.merge(b) or a += b, the paths of a are the union of the old
\* paths of a and of b; every path of b maps to b's module; every path only
\* in a keeps its module.
C3_Merge ==
    call.op \in {"merge", "add_assign"} =>
        /\ DOMAIN registry = (DOMAIN before) \cup (DOMAIN call.other)
        /\ \A p \in DOMAIN call.other : registry[p] = call.other[p]
        /\ \A p \in (DOMAIN before) \ (DOMAIN call.other) : registry[p] = before[p]

\* a merge with a conflicting path, a path only in a and a path only in b
C3_Witness ==
    /\ call.op = "merge"
    /\ \E p \in (DOMAIN before) \cap (DOMAIN call.other) : before[p] # call.other[p]
    /\ (DOMAIN before) \ (DOMAIN call.other) # {}
    /\ (DOMAIN call.other) \ (DOMAIN before) # {}

\* C4: len() is the number of paths stored and is_empty() holds exactly when
\* it is 0; insert of a new path adds 1, insert at a stored path adds nothing,
\* remove of a stored path subtracts 1, remove of an absent path changes
\* nothing, clear leaves 0.
C4_LenConsistent ==
    /\ call.op = "len" => ret = Cardinality(DOMAIN registry)
    /\ call.op = "is_empty" => (ret <=> MapLen(registry) = 0)
    /\ call.op = "insert" =>
          MapLen(registry) =
              IF call.path \in DOMAIN before THEN MapLen(before)
              ELSE MapLen(before) + 1
    /\ call.op = "remove" =>
          IF call.path \in DOMAIN before
          THEN MapLen(registry) + 1 = MapLen(before)
          ELSE MapLen(registry) = MapLen(before)
    /\ call.op = "clear" => MapLen(registry) = 0

\* a stored path was removed from a registry of two
C4_Witness ==
    /\ call.op = "remove"
    /\ call.path \in DOMAIN before
    /\ MapLen(before) = 2
    /\ MapLen(registry) = 1


---------------------------------------------------------------------------
(* Properties of the conversions, checked under SpecNormalize *)

FromTable == input.kind = "FuncInfo" /\ meta.some
FromScript == input.kind = "ScriptFnMetadata" /\ meta.some

\* the text of a raw parameter string before its first colon, or all of it
BeforeColon(s) ==
    IF FirstColon(s) = 0 THEN s ELSE SubSeq(s, 1, FirstColon(s) - 1)

\* the text after the first colon
AfterColon(s) == SubSeq(s, FirstColon(s) + 1, Len(s))

\* the parameter the specification describes for one raw string
DescribedParam(s) ==
    [ name |-> IF Len(Trim(BeforeColon(s))) = 0 THEN S_underscore
               ELSE Trim(BeforeColon(s)),
      typ |-> IF FirstColon(s) = 0 THEN None ELSE Some(Trim(AfterColon(s))) ]

SameParam(p, q) ==
    /\ p.name = q.name
    /\ p.typ.some = q.typ.some
    /\ p.typ.some => p.typ.val = q.typ.val

\* C5: each taken raw string is split once on its first colon; the trimmed
\* text before the colon is the name, "_" when that is empty; the trimmed text
\* after the colon is the type, absent without a colon.
C5_ParamParsing ==
    (FromTable /\ input.info.param_names.some) =>
        \A i \in 1..Len(meta.val.params) :
            SameParam(meta.val.params[i], DescribedParam(input.info.param_names.val[i]))

\* C6: through the function-table path return_type is the last raw entry
\* verbatim when the list has entries, "()" when the list is empty, and absent
\* when there is no list; so it is present exactly when a list is.
C6_ReturnType ==
    FromTable =>
        LET names == input.info.param_names
            rt == meta.val.return_type
        IN  /\ rt.some <=> names.some
            /\ (names.some /\ Len(names.val) > 0) => rt.val = names.val[Len(names.val)]
            /\ (names.some /\ Len(names.val) = 0) => rt.val = S_unit

\* the last entry is one of the declared parameters and has blanks around it
C6_Witness ==
    /\ FromTable
    /\ input.info.param_names.some
    /\ Len(input.info.param_names.val) = 2
    /\ input.info.params = 2
    /\ input.info.param_names.val[2] = S_padded
    /\ meta.val.return_type.some
    /\ meta.val.return_type.val = S_padded

\* C9: through the function-table path doc_comments is present for every
\* script function, with its lines verbatim even when there are none, and
\* absent for every native one; through the compiled-script path it is present
\* exactly when there is at least one line.  It is never present on a native
\* function.
C9_DocComments ==
    /\ FromTable =>
          /\ meta.val.doc_comments.some <=> input.info.func.script
          /\ input.info.func.script =>
                meta.val.doc_comments.val = input.info.func.comments
    /\ FromScript =>
          /\ meta.val.doc_comments.some <=> Len(input.info.comments) > 0
          /\ Len(input.info.comments) > 0 =>
                meta.val.doc_comments.val = input.info.comments
    /\ (meta.some /\ meta.val.doc_comments.some) => meta.val.typ = "Script"

\* a script function of a module without documentation lines: an empty list
C9_Witness ==
    /\ FromTable
    /\ input.info.func.script
    /\ Len(input.info.func.comments) = 0
    /\ meta.val.doc_comments.some
    /\ Len(meta.val.doc_comments.val) = 0

\* C10: through the function-table path the params list has
\* min(numParams, length of the raw list) entries, none without a raw list;
\* with numParams + 1 raw entries the trailing one is not a parameter;
\* num_params is the declared arity whatever the length of the list.
C10_ParamCount ==
    FromTable =>
        LET names == input.info.param_names
            n == input.info.params
        IN  /\ meta.val.num_params = n
            /\ Len(meta.val.params) =
                  IF names.some THEN Min(n, Len(names.val)) ELSE 0
            /\ Len(meta.val.params) <= n
            /\ (names.some /\ Len(names.val) = n + 1) => Len(meta.val.params) = n

\* one declared parameter and a trailing return-type entry
C10_Witness ==
    /\ FromTable
    /\ input.info.params = 1
    /\ input.info.param_names.some
    /\ Len(input.info.param_names.val) = 2
    /\ Len(meta.val.params) = 1
    /\ meta.val.num_params = 1

---------------------------------------------------------------------------
(* Properties of the export, checked under SpecExport *)

Exported == json.some /\ global.some

\* the document of a successful export
Doc == json.val.val

HasKey(obj, key) == \E i \in 1..Len(obj.v) : obj.v[i][1] = key

Keys(obj) == {obj.v[i][1] : i \in 1..Len(obj.v)}

Get(obj, key) == obj.v[CHOOSE i \in 1..Len(obj.v) : obj.v[i][1] = key][2]

\* the function entries of one level of the document
FunctionsOf(node) == IF HasKey(node, "functions") THEN Get(node, "functions").v ELSE << >>

\* the sub-module names of one level of the document
ModuleKeysOf(node) == IF HasKey(node, "modules") THEN Keys(Get(node, "modules")) ELSE {}

\* the names of the functions at every level of the document
RECURSIVE AllFnNames(_)
AllFnNames(node) ==
    {Get(FunctionsOf(node)[i], "name").v : i \in 1..Len(FunctionsOf(node))}
    \cup UNION {AllFnNames(Get(Get(node, "modules"), k)) : k \in ModuleKeysOf(node)}

\* the entries of the root list: the packages in the order the engine's
\* collection iterates them if asked for, then the global namespace, then the
\* compiled script
ExpectedRootFunctions ==
    (IF request.include_packages
     THEN Flatten([i \in 1..Len(engine.packages) |->
                      MapSeq(FnMetadata_from_FuncInfo, engine.packages[i].fns)])
     ELSE << >>)
    \o MapSeq(FnMetadata_from_FuncInfo, engine.global_namespace.fns)
    \o (IF request.ast.some
        THEN MapSeq(FnMetadata_from_ScriptFnMetadata, request.ast.val)
        ELSE << >>)

\* What gen_fn_metadata_to_json itself fixes about the root: package
\* functions (only with include_packages) before those of the global
\* namespace before those of the compiled script, one module key per global
\* sub-module, no package function anywhere without include_packages.  How
\* the order of the engine's package collection relates to the order in which
\* packages were registered is fixed where they are registered, not here.
RootFollowsCollections ==
    Exported =>
        /\ json.val.ok
        /\ FunctionsOf(Doc) = MapSeq(Ser_FnMetadata, ExpectedRootFunctions)
        /\ ModuleKeysOf(Doc) = DOMAIN engine.global_sub_modules
        /\ ~ request.include_packages => AllFnNames(Doc) \cap PackageFnNames = {}

\* the tree has, at every level, the sub-modules and as many functions as the
\* module it was built from
RECURSIVE BuiltFrom(_, _)
BuiltFrom(node, module) ==
    /\ DOMAIN node.modules = DOMAIN module.subs
    /\ Len(node.functions) = Len(module.fns)
    /\ \A k \in DOMAIN module.subs : BuiltFrom(node.modules[k], module.subs[k])

\* one level of the document against the tree node it was written from, and
\* so for every level below it
RECURSIVE EmittedAsNeeded(_, _)
EmittedAsNeeded(node, out) ==
    /\ HasKey(out, "modules") <=> DOMAIN node.modules # {}
    /\ HasKey(out, "functions") <=> Len(node.functions) > 0
    /\ HasKey(out, "modules") =>
          /\ Len(Get(out, "modules").v) > 0
          /\ Keys(Get(out, "modules")) = DOMAIN node.modules
          /\ \A k \in DOMAIN node.modules :
                EmittedAsNeeded(node.modules[k], Get(Get(out, "modules"), k))
    /\ HasKey(out, "functions") =>
          /\ Len(Get(out, "functions").v) = Len(node.functions)
          /\ \A i \in 1..Len(node.functions) :
                LET entry == Get(out, "functions").v[i]
                IN  /\ HasKey(entry, "params") <=> Len(node.functions[i].params) > 0
                    /\ HasKey(entry, "params") => Len(Get(entry, "params").v) > 0

\* C8: at every level of the document "modules" is written exactly when the
\* module has a sub-module and "functions" exactly when it has a function, so
\* neither is ever written empty; a function entry has "params" exactly when
\* its parameter list is not empty.
C8_EmptyOmitted ==
    Exported =>
        /\ DOMAIN global.val.modules = DOMAIN engine.global_sub_modules
        /\ \A k \in DOMAIN engine.global_sub_modules :
              BuiltFrom(global.val.modules[k], engine.global_sub_modules[k])
        /\ EmittedAsNeeded(global.val, Doc)

\* a root without functions over a three-level module tree that holds a module
\* without functions, an empty module and a function without parameters
C8_Witness ==
    /\ Exported
    /\ ~ HasKey(Doc, "functions")
    /\ HasKey(Doc, "modules")
    /\ N_util \in DOMAIN engine.global_sub_modules
    /\ engine.global_sub_modules[N_util] = M_deep
    /\ Keys(Get(Get(Doc, "modules"), N_util)) = {"modules", "functions"}
    /\ Len(Get(Get(Get(Doc, "modules"), N_util), "modules").v) = 2


====
